---------------------------- MODULE Spec2Model ----------------------------
(***************************************************************************)
(* A model of aurders (src/src/main.rs and src/src/utils.rs).              *)
(*                                                                         *)
(* Text is a sequence of symbols.  A symbol is one character ("{", "}",   *)
(* " ") or an indivisible run of characters that holds no brace and no    *)
(* white space ("pkgver", "foo", "1.0"), so the placeholder {pkgver} is    *)
(* the three symbols <<"{", "pkgver", "}">> and str::replace is a          *)
(* substring replacement on symbol sequences.                              *)
(*                                                                         *)
(* The filesystem fs is a function from the paths that exist to their      *)
(* content; unreadable is the set of existing paths whose read fails.      *)
(***************************************************************************)
EXTENDS Integers, Sequences, FiniteSets, TLC

VARIABLES
    fs,               \* the files on disk: path -> content
    unreadable,       \* existing paths that cannot be read
    dir_writable,     \* whether files can be created in the working directory
    pc,               \* position of the running program
    pkginfo,          \* main: the Information record
    pkgbuild_result,  \* main: result of generate_pkgbuild
    srcinfo_result,   \* main: result of generate_srcinfo
    out,              \* lines printed by the process, as message tags
    exit_code,        \* -1 while the process runs, then its exit status
    run,              \* number of the current process run
    fs_start,         \* history: fs when the current run started
    saves,            \* history: every save_* call, in order
    arg,              \* utils: the argument of the call under study
    ret,              \* utils: what the calls returned, in order
    env               \* utils: what the environment holds (remote archive, source tree)

vars == <<fs, unreadable, dir_writable, pc, pkginfo, pkgbuild_result,
          srcinfo_result, out, exit_code, run, fs_start, saves, arg, ret, env>>

----------------------------------------------------------------------------
(* Bounds *)

MaxTplLen == 3
MaxVaried == 2
MaxRuns == 2
MaxFileLen == 2
MaxCalls == 2

----------------------------------------------------------------------------
(* Text *)

RECURSIVE SeqsUpTo(_, _)
SeqsUpTo(S, n) ==
    IF n = 0 THEN {<<>>}
    ELSE LET shorter == SeqsUpTo(S, n - 1)
         IN shorter \cup {Append(s, x) : s \in shorter, x \in S}

IsPrefixAt(s, i, pat) ==
    /\ i + Len(pat) - 1 <= Len(s)
    /\ SubSeq(s, i, i + Len(pat) - 1) = pat

Occurs(pat, s) == \E i \in 1..Len(s) : IsPrefixAt(s, i, pat)

\* str::replace: every non-overlapping match of `from`, left to right, becomes `to`.
RECURSIVE Replace(_, _, _)
Replace(s, from, to) ==
    IF Len(s) < Len(from) \/ Len(from) = 0 THEN s
    ELSE IF IsPrefixAt(s, 1, from)
         THEN to \o Replace(SubSeq(s, Len(from) + 1, Len(s)), from, to)
         ELSE <<Head(s)>> \o Replace(Tail(s), from, to)

IsSpace(c) == c \in {" ", "\n", "\t"}

RECURSIVE TrimStart(_)
TrimStart(s) ==
    IF s # <<>> /\ IsSpace(Head(s)) THEN TrimStart(Tail(s)) ELSE s

RECURSIVE TrimEnd(_)
TrimEnd(s) ==
    IF s # <<>> /\ IsSpace(s[Len(s)]) THEN TrimEnd(SubSeq(s, 1, Len(s) - 1)) ELSE s

\* str::trim
Trim(s) == TrimStart(TrimEnd(s))

----------------------------------------------------------------------------
(* main.rs: the record and the two generators *)

Fields == {"maintainer_name", "maintainer_email", "pkgname", "pkgver", "pkgrel",
           "pkgdesc", "url", "license", "arch", "depends", "makedepends",
           "sha256sums"}

Placeholder(name) == <<"{", name, "}">>

Ok(v) == [tag |-> "Ok", val |-> v]
Err(k) == [tag |-> "Err", kind |-> k]
Unset == [tag |-> "Unset"]

\* File::open followed by read_to_string
ReadFile(files, noread, path) ==
    IF path \notin DOMAIN files THEN Err("NotFound")
    ELSE IF path \in noread THEN Err("Unreadable")
    ELSE Ok(files[path])

get_pkgbuild(files, noread) == ReadFile(files, noread, "templates/PKGBUILD")

get_srcinfo(files, noread) == ReadFile(files, noread, "templates/SRCINFO")

\* A chain of .replace(from, to) calls applied in order.
RECURSIVE ReplaceChain(_, _)
ReplaceChain(s, chain) ==
    IF chain = <<>> THEN s
    ELSE ReplaceChain(Replace(s, chain[1][1], chain[1][2]), Tail(chain))

PkgbuildChain(info) ==
    << <<Placeholder("maintainer_name"), info.maintainer_name>>,
       <<Placeholder("maintainer_email"), info.maintainer_email>>,
       <<Placeholder("pkgname"), info.pkgname>>,
       <<Placeholder("pkgver"), info.pkgver>>,
       <<Placeholder("pkgrel"), info.pkgrel>>,
       <<Placeholder("pkgdesc"), info.pkgdesc>>,
       <<Placeholder("arch"), info.arch>>,
       <<Placeholder("url"), info.url>>,
       <<Placeholder("license"), info.license>>,
       <<Placeholder("depends"), info.depends>>,
       <<Placeholder("makedepends"), info.makedepends>>,
       <<Placeholder("sha256sums"), info.sha256sums>> >>

SrcinfoChain(info) ==
    << <<Placeholder("pkgbase"), info.pkgname>>,
       <<Placeholder("pkgdesc"), info.pkgdesc>>,
       <<Placeholder("pkgrel"), info.pkgrel>>,
       <<Placeholder("url"), info.url>>,
       <<Placeholder("arch"), info.arch>>,
       <<Placeholder("license"), info.license>>,
       <<Placeholder("makedepends"), info.makedepends>>,
       <<Placeholder("source"), <<"SOURCE">> >>,
       <<Placeholder("sha256sums"), <<"sha256sums">> >>,
       <<Placeholder("pkgname"), <<"pkgname">> >> >>

RenderPkgbuild(template, info) == ReplaceChain(template, PkgbuildChain(info))

RenderSrcinfo(template, info) == ReplaceChain(template, SrcinfoChain(info))

generate_pkgbuild(files, noread, info) ==
    LET template == get_pkgbuild(files, noread)
    IN IF template.tag = "Ok" THEN Ok(RenderPkgbuild(template.val, info)) ELSE template

generate_srcinfo(files, noread, info) ==
    LET template == get_srcinfo(files, noread)
    IN IF template.tag = "Ok" THEN Ok(RenderSrcinfo(template.val, info)) ELSE template


----------------------------------------------------------------------------
(* main.rs: saving the outputs *)

\* Mutant of create_new: File::create, which truncates a file that exists.
create_truncating(files, writable, path) ==
    IF path \notin DOMAIN files /\ ~writable
    THEN [res |-> Err("PermissionDenied"), fs |-> files]
    ELSE [res |-> Ok(<<>>), fs |-> (path :> <<>>) @@ files]

\* File::create_new: fails when the path exists, creates an empty file otherwise.
create_new(files, writable, path) ==
    IF path \in DOMAIN files THEN [res |-> Err("AlreadyExists"), fs |-> files]
    ELSE IF ~writable THEN [res |-> Err("PermissionDenied"), fs |-> files]
    ELSE [res |-> Ok(<<>>), fs |-> (path :> <<>>) @@ files]

\* write_all on the new file: n symbols reach the file; fewer than Len(text) is an error.
write_all(files, path, text, n) ==
    IF n >= Len(text) THEN [res |-> Ok(<<>>), fs |-> [files EXCEPT ![path] = text]]
    ELSE [res |-> Err("WriteFailed"), fs |-> [files EXCEPT ![path] = SubSeq(text, 1, n)]]

\* The body shared by save_pkgbuild and save_srcinfo; name is the file's printed name.
SaveNew(files, writable, path, name, text, n) ==
    LET file_result == create_new(files, writable, path)
    IN IF file_result.res.tag = "Ok"
       THEN LET w == write_all(file_result.fs, path, text, n)
            IN IF w.res.tag = "Ok"
               THEN [res |-> w.res, fs |-> w.fs,
                     msg |-> <<"Generated " \o name \o " successfully.">>]
               ELSE [res |-> w.res, fs |-> w.fs,
                     msg |-> <<"Failed to write to " \o name>>]
       ELSE [res |-> file_result.res, fs |-> file_result.fs,
             msg |-> <<"Failed to create new " \o name>>]

save_pkgbuild(files, writable, text, n) ==
    SaveNew(files, writable, "PKGBUILD", "PKGBUILD", text, n)

save_srcinfo(files, writable, text, n) ==
    SaveNew(files, writable, ".SRCINFO", ".SRCINFO", text, n)

\* The history record of one save call.
SaveEvent(path, text, before, r) ==
    [path |-> path, text |-> text, run |-> run,
     pre_exists |-> path \in DOMAIN before,
     pre |-> IF path \in DOMAIN before THEN before[path] ELSE <<>>,
     res |-> r.res,
     post_exists |-> path \in DOMAIN r.fs,
     post |-> IF path \in DOMAIN r.fs THEN r.fs[path] ELSE <<>>]

----------------------------------------------------------------------------
(* main.rs: main *)

\* input_string of main.rs: the line read, trimmed.
input_string(line) == Trim(line)

\* main, lines 21-34: the twelve prompts.
ReadInputs(lines) ==
    /\ pc = "input"
    /\ pkginfo' = [f \in Fields |-> input_string(lines[f])]
    /\ pc' = "gen_pkgbuild"
    /\ UNCHANGED <<fs, unreadable, dir_writable, pkgbuild_result, srcinfo_result,
                   out, exit_code, run, fs_start, saves, arg, ret, env>>

\* main, line 36
GeneratePkgbuild ==
    /\ pc = "gen_pkgbuild"
    /\ pkgbuild_result' = generate_pkgbuild(fs, unreadable, pkginfo)
    /\ out' = IF pkgbuild_result'.tag = "Ok"
              THEN Append(out, "Got PKGBUILD template") ELSE out
    /\ pc' = "match_pkgbuild"
    /\ UNCHANGED <<fs, unreadable, dir_writable, pkginfo, srcinfo_result,
                   exit_code, run, fs_start, saves, arg, ret, env>>

\* Mutant of MatchPkgbuild: a failed save ends the process with status 1.
MatchPkgbuild_ExitOnFailedSave ==
    /\ pc = "match_pkgbuild"
    /\ \/ /\ pkgbuild_result.tag = "Ok"
          /\ \E n \in 0..Len(pkgbuild_result.val) :
                LET r == save_pkgbuild(fs, dir_writable, pkgbuild_result.val, n)
                IN /\ fs' = r.fs
                   /\ out' = Append(out, "Successfully Generated PKGBUILD") \o r.msg
                   /\ saves' = Append(saves,
                                  SaveEvent("PKGBUILD", pkgbuild_result.val, fs, r))
                   /\ pc' = IF r.res.tag = "Ok" THEN "gen_srcinfo" ELSE "done"
                   /\ exit_code' = IF r.res.tag = "Ok" THEN exit_code ELSE 1
       \/ /\ pkgbuild_result.tag = "Err"
          /\ out' = Append(out, "Failed to generate PKGBUILD")
          /\ pc' = "gen_srcinfo"
          /\ UNCHANGED <<fs, saves, exit_code>>
    /\ UNCHANGED <<unreadable, dir_writable, pkginfo, pkgbuild_result,
                   srcinfo_result, run, fs_start, arg, ret, env>>

\* main, lines 38-46
MatchPkgbuild ==
    /\ pc = "match_pkgbuild"
    /\ \/ /\ pkgbuild_result.tag = "Ok"
          /\ \E n \in 0..Len(pkgbuild_result.val) :
                LET r == save_pkgbuild(fs, dir_writable, pkgbuild_result.val, n)
                IN /\ fs' = r.fs
                   /\ out' = Append(out, "Successfully Generated PKGBUILD") \o r.msg
                   /\ saves' = Append(saves,
                                  SaveEvent("PKGBUILD", pkgbuild_result.val, fs, r))
       \/ /\ pkgbuild_result.tag = "Err"
          /\ out' = Append(out, "Failed to generate PKGBUILD")
          /\ UNCHANGED <<fs, saves>>
    /\ pc' = "gen_srcinfo"
    /\ UNCHANGED <<unreadable, dir_writable, pkginfo, pkgbuild_result,
                   srcinfo_result, exit_code, run, fs_start, arg, ret, env>>

\* main, line 48
GenerateSrcinfo ==
    /\ pc = "gen_srcinfo"
    /\ srcinfo_result' = generate_srcinfo(fs, unreadable, pkginfo)
    /\ out' = IF srcinfo_result'.tag = "Ok"
              THEN Append(out, "Got SRCINFO template") ELSE out
    /\ pc' = "match_srcinfo"
    /\ UNCHANGED <<fs, unreadable, dir_writable, pkginfo, pkgbuild_result,
                   exit_code, run, fs_start, saves, arg, ret, env>>

\* main, lines 50-59: the second match, then main returns.
MatchSrcinfo ==
    /\ pc = "match_srcinfo"
    /\ \/ /\ srcinfo_result.tag = "Ok"
          /\ \E n \in 0..Len(srcinfo_result.val) :
                LET r == save_srcinfo(fs, dir_writable, srcinfo_result.val, n)
                IN /\ fs' = r.fs
                   /\ out' = Append(out, "Successfully Generated SRCINFO") \o r.msg
                   /\ saves' = Append(saves,
                                  SaveEvent(".SRCINFO", srcinfo_result.val, fs, r))
       \/ /\ srcinfo_result.tag = "Err"
          /\ out' = Append(out, "Failed to generate SRCINFO")
          /\ UNCHANGED <<fs, saves>>
    /\ pc' = "done"
    /\ exit_code' = 0
    /\ UNCHANGED <<unreadable, dir_writable, pkginfo, pkgbuild_result,
                   srcinfo_result, run, fs_start, arg, ret, env>>

\* The operator starts the program again in the same directory.
Restart ==
    /\ pc = "done"
    /\ run < MaxRuns
    /\ run' = run + 1
    /\ pc' = "input"
    /\ pkginfo' = [f \in Fields |-> <<>>]
    /\ pkgbuild_result' = Unset
    /\ srcinfo_result' = Unset
    /\ out' = <<"Hello, world!">>
    /\ exit_code' = -1
    /\ fs_start' = fs
    /\ UNCHANGED <<fs, unreadable, dir_writable, saves, arg, ret, env>>

----------------------------------------------------------------------------
(* The inputs of the runs of main *)

OldText == <<"old">>

MainTemplates == { <<"{", "pkgname", "}", "-", "{", "pkgver", "}">>,
                   <<"{", "pkgrel", "}">> }

\* Lines typed at the prompts: with white space around, or naming a placeholder.
MainLines == { [f \in Fields |-> <<" ", f, "\n">>],
               [f \in Fields |-> IF f = "pkgname" THEN <<"foo", "\n">>
                                 ELSE IF f = "pkgver" THEN <<"1.0", "\n">>
                                 ELSE <<"\n">>],
               [f \in Fields |-> IF f = "pkgname" THEN <<"{", "pkgver", "}", "\n">>
                                 ELSE <<"2", "\n">>] }

\* Every choice of files among `paths`, each with a content drawn from `contents`.
FileSystems(paths, contents) ==
    UNION { [S -> contents] : S \in SUBSET paths }

MainInit ==
    /\ \E outs \in FileSystems({"PKGBUILD", ".SRCINFO"}, {OldText}),
          tpls \in FileSystems({"templates/PKGBUILD", "templates/SRCINFO"},
                               MainTemplates) :
          fs = outs @@ tpls
    /\ unreadable \in SUBSET ({"templates/PKGBUILD", "templates/SRCINFO"}
                                \cap DOMAIN fs)
    /\ dir_writable \in BOOLEAN
    /\ pc = "input"
    /\ pkginfo = [f \in Fields |-> <<>>]
    /\ pkgbuild_result = Unset
    /\ srcinfo_result = Unset
    /\ out = <<"Hello, world!">>
    /\ exit_code = -1
    /\ run = 1
    /\ fs_start = fs
    /\ saves = <<>>
    /\ arg = <<>>
    /\ ret = <<>>
    /\ env = <<>>

MainNext ==
    \/ \E lines \in MainLines : ReadInputs(lines)
    \/ GeneratePkgbuild
    \/ MatchPkgbuild
    \/ GenerateSrcinfo
    \/ MatchSrcinfo
    \/ Restart

MainSpec == MainInit /\ [][MainNext]_vars

----------------------------------------------------------------------------
(* The generators applied to bounded templates and records *)

TplAlphabet == {"{", "}", "pkgname", "pkgver", "maintainer_name", "="}

ScenarioTemplate ==
    <<"pkgname", "=", "{", "pkgname", "}", "\n", "ver", "=", "{", "pkgver", "}">>

Templates == SeqsUpTo(TplAlphabet, MaxTplLen) \cup {ScenarioTemplate}

DefaultValue == <<"1.0">>

\* A value may be plain text or may itself read like a placeholder.
FieldValues == {<<"foo">>, Placeholder("pkgver")}

\* The records with at most MaxVaried fields off the default value.
Records ==
    UNION { { [f \in Fields |-> IF f \in S THEN g[f] ELSE DefaultValue] :
                g \in [S -> FieldValues] } :
            S \in {T \in SUBSET Fields : Cardinality(T) <= MaxVaried} }

CallGeneratePkgbuild ==
    /\ pc = "call_generate_pkgbuild"
    /\ pkgbuild_result' = generate_pkgbuild(fs, unreadable, pkginfo)
    /\ pc' = "call_generate_srcinfo"
    /\ UNCHANGED <<fs, unreadable, dir_writable, pkginfo, srcinfo_result, out,
                   exit_code, run, fs_start, saves, arg, ret, env>>

CallGenerateSrcinfo ==
    /\ pc = "call_generate_srcinfo"
    /\ srcinfo_result' = generate_srcinfo(fs, unreadable, pkginfo)
    /\ pc' = "rendered"
    /\ UNCHANGED <<fs, unreadable, dir_writable, pkginfo, pkgbuild_result, out,
                   exit_code, run, fs_start, saves, arg, ret, env>>

RenderInit ==
    /\ \E path \in {"templates/PKGBUILD", "templates/SRCINFO"}, t \in Templates :
          fs = (path :> t)
    /\ unreadable = {}
    /\ dir_writable = TRUE
    /\ pc = "call_generate_pkgbuild"
    /\ pkginfo \in Records
    /\ pkgbuild_result = Unset
    /\ srcinfo_result = Unset
    /\ out = <<>>
    /\ exit_code = -1
    /\ run = 1
    /\ fs_start = fs
    /\ saves = <<>>
    /\ arg = <<>>
    /\ ret = <<>>
    /\ env = <<>>

RenderNext == CallGeneratePkgbuild \/ CallGenerateSrcinfo

RenderSpec == RenderInit /\ [][RenderNext]_vars

\* The substitution the specification describes: one pass over the template in
\* which every {f}, f a field of the record, becomes the value of f.
RECURSIVE SubstituteOnce(_, _)
SubstituteOnce(t, info) ==
    IF t = <<>> THEN <<>>
    ELSE IF \E f \in Fields : IsPrefixAt(t, 1, Placeholder(f))
         THEN info[t[2]] \o SubstituteOnce(SubSeq(t, 4, Len(t)), info)
         ELSE <<Head(t)>> \o SubstituteOnce(Tail(t), info)

TemplateOfPkgbuild == fs["templates/PKGBUILD"]

\* C2: the output of generate_pkgbuild is the template with every {f} replaced by
\* the record's value of f verbatim, text coming from a value never being
\* substituted again.
C2_VerbatimSubstitution ==
    pkgbuild_result.tag = "Ok" =>
        pkgbuild_result.val = SubstituteOnce(TemplateOfPkgbuild, pkginfo)

\* C3: changing a field whose placeholder the template does not hold leaves the
\* output of generate_pkgbuild as it is.
C3_UnmentionedFieldIrrelevant ==
    pkgbuild_result.tag = "Ok" =>
        \A f \in Fields, v \in FieldValues \cup {DefaultValue} :
            ~Occurs(Placeholder(f), TemplateOfPkgbuild) =>
                RenderPkgbuild(TemplateOfPkgbuild, [pkginfo EXCEPT ![f] = v])
                    = pkgbuild_result.val

\* A record none of whose values holds a brace.
PlainRecord(info) == \A f \in Fields : \A i \in 1..Len(info[f]) : info[f][i] \notin {"{", "}"}

\* C4: neither generated text holds a {f} for a field f of the record (stated for
\* the records whose values are plain text, where no value can bring a {f} in).
C4_NoPlaceholderLeft ==
    PlainRecord(pkginfo) =>
    /\ pkgbuild_result.tag = "Ok" =>
           \A f \in Fields : ~Occurs(Placeholder(f), pkgbuild_result.val)
    /\ srcinfo_result.tag = "Ok" =>
           \A f \in Fields : ~Occurs(Placeholder(f), srcinfo_result.val)

----------------------------------------------------------------------------
(* Claims about the runs of main *)

Printed(line) == \E i \in 1..Len(out) : out[i] = line

Outputs == {"PKGBUILD", ".SRCINFO"}

\* C1: a save on a path that exists fails with AlreadyExists and leaves the content
\* as it was; a later save on a path saved before fails and the file keeps what
\* the first call left, the first call's text when that call succeeded.
C1_ExistingFileUntouched ==
    \A i \in 1..Len(saves) :
        LET e == saves[i] IN
        /\ e.pre_exists =>
              /\ e.res = Err("AlreadyExists")
              /\ e.post_exists
              /\ e.post = e.pre
        /\ \A j \in 1..(i - 1) :
              saves[j].path = e.path =>
                 /\ e.res.tag = "Err"
                 /\ e.post_exists = saves[j].post_exists
                 /\ e.post = saves[j].post
                 /\ e.path \in DOMAIN fs => fs[e.path] = saves[j].post
                 /\ saves[j].res.tag = "Ok" =>
                       /\ e.res = Err("AlreadyExists")
                       /\ e.post = saves[j].text

\* C1 witness: a second save on a path the first save wrote, with another text.
C1_Witness ==
    \E i \in 1..Len(saves), j \in 1..Len(saves) :
        /\ i < j
        /\ saves[i].path = saves[j].path
        /\ saves[i].res.tag = "Ok"
        /\ saves[j].text # saves[i].text
        /\ saves[j].res = Err("AlreadyExists")
        /\ fs[saves[j].path] = saves[i].text

\* C10: after a save returns the file is absent, or as it was before the call, or
\* holds the whole generated text.
C10_AtomicOrFail ==
    \A i \in 1..Len(saves) :
        LET e == saves[i] IN
        \/ ~e.post_exists
        \/ e.pre_exists /\ e.post = e.pre
        \/ e.post = e.text

Running == pc \in {"input", "gen_pkgbuild", "match_pkgbuild", "gen_srcinfo",
                   "match_srcinfo"}

\* C5: a save that fails because its file exists does not end the run: the run
\* reports it, goes on to the other output and ends normally, the existing file
\* unchanged and the other output written.
C5_ContinuesPastExistingOutput ==
    /\ Running => exit_code = -1
    /\ pc = "done" =>
          /\ exit_code = 0
          /\ \A p \in Outputs \cap DOMAIN fs_start :
                p \in DOMAIN fs /\ fs[p] = fs_start[p]
          /\ ("PKGBUILD" \in DOMAIN fs_start /\ pkgbuild_result.tag = "Ok") =>
                /\ Printed("Failed to create new PKGBUILD")
                /\ srcinfo_result.tag # "Unset"
          /\ (".SRCINFO" \in DOMAIN fs_start /\ srcinfo_result.tag = "Ok") =>
                Printed("Failed to create new .SRCINFO")
          /\ ("PKGBUILD" \in DOMAIN fs_start /\ ".SRCINFO" \notin DOMAIN fs_start
                /\ srcinfo_result.tag = "Ok" /\ dir_writable) =>
                /\ ".SRCINFO" \in DOMAIN fs
                /\ \/ fs[".SRCINFO"] = srcinfo_result.val
                   \/ Printed("Failed to write to .SRCINFO")
          /\ (".SRCINFO" \in DOMAIN fs_start /\ "PKGBUILD" \notin DOMAIN fs_start
                /\ pkgbuild_result.tag = "Ok" /\ dir_writable) =>
                /\ "PKGBUILD" \in DOMAIN fs
                /\ \/ fs["PKGBUILD"] = pkgbuild_result.val
                   \/ Printed("Failed to write to PKGBUILD")

\* C5 witness: a run that found PKGBUILD and no .SRCINFO, reported the first and
\* wrote the second.
C5_Witness ==
    /\ pc = "done"
    /\ "PKGBUILD" \in DOMAIN fs_start
    /\ ".SRCINFO" \notin DOMAIN fs_start
    /\ Printed("Failed to create new PKGBUILD")
    /\ Printed("Generated .SRCINFO successfully.")
    /\ fs[".SRCINFO"] = srcinfo_result.val
    /\ fs["PKGBUILD"] = fs_start["PKGBUILD"]

\* C6: a template that cannot be read is fatal: the run halts with a non-zero exit
\* status and does not go on to the next artifact.
C6_TemplateFailureIsFatal ==
    /\ pkgbuild_result.tag = "Err" => srcinfo_result.tag = "Unset"
    /\ (pc = "done" /\ (pkgbuild_result.tag = "Err" \/ srcinfo_result.tag = "Err")) =>
          exit_code > 0

----------------------------------------------------------------------------
(* utils.rs: get_sha256 *)

Some(v) == [tag |-> "Some", val |-> v]
None == [tag |-> "None"]

Hex == <<"0", "1", "2", "3", "4", "5", "6", "7", "8", "9", "a", "b", "c", "d", "e", "f">>

DigestLen == 4

RECURSIVE Checksum(_, _)
Checksum(bytes, h) ==
    IF bytes = <<>> THEN h
    ELSE Checksum(Tail(bytes), (h * 31 + Head(bytes) + 1) % 65536)

\* sha256::try_digest: the file's digest as lower-case hex of a fixed length, or an
\* error when the file cannot be read.  The digest itself is a short checksum of
\* the bytes standing for SHA-256.
try_digest(files, noread, path) ==
    LET file == ReadFile(files, noread, path)
    IN IF file.tag = "Ok"
       THEN LET h == Checksum(file.val, 7)
            IN Ok([i \in 1..DigestLen |-> Hex[((h \div (16 ^ (DigestLen - i))) % 16) + 1]])
       ELSE file

\* Mutant of get_sha256: the sentinel string is handed back on failure.
get_sha256_sentinel(files, noread, tarball) ==
    LET value_result == try_digest(files, noread, tarball)
    IN IF value_result.tag = "Ok"
       THEN [ret |-> Some(value_result.val), msg |-> <<>>]
       ELSE [ret |-> Some(<<"SKIP">>),
             msg |-> <<"Failed to get sha256. Using 'SKIP' as default value.">>]

get_sha256(files, noread, tarball) ==
    LET value_result == try_digest(files, noread, tarball)
    IN IF value_result.tag = "Ok"
       THEN [ret |-> Some(value_result.val), msg |-> <<>>]
       ELSE [ret |-> None,
             msg |-> <<"Failed to get sha256. Using 'SKIP' as default value.">>]

CallGetSha256(tarball) ==
    /\ pc = "sha"
    /\ Len(ret) < MaxCalls
    /\ LET r == get_sha256(fs, unreadable, tarball)
       IN /\ ret' = Append(ret, r.ret)
          /\ out' = out \o r.msg
    /\ arg' = Append(arg, tarball)
    /\ UNCHANGED <<fs, unreadable, dir_writable, pc, pkginfo, pkgbuild_result,
                   srcinfo_result, exit_code, run, fs_start, saves, env>>

ShaPaths == {"aurders/a.tar.gz", "aurders/b.tar.gz"}

Bytes == {0, 255}

ShaInit ==
    /\ fs \in FileSystems(ShaPaths, SeqsUpTo(Bytes, MaxFileLen))
    /\ unreadable \in SUBSET DOMAIN fs
    /\ dir_writable = TRUE
    /\ pc = "sha"
    /\ pkginfo = [f \in Fields |-> <<>>]
    /\ pkgbuild_result = Unset
    /\ srcinfo_result = Unset
    /\ out = <<>>
    /\ exit_code = -1
    /\ run = 1
    /\ fs_start = fs
    /\ saves = <<>>
    /\ arg = <<>>
    /\ ret = <<>>
    /\ env = <<>>

ShaNext == \E tarball \in ShaPaths : CallGetSha256(tarball)

ShaSpec == ShaInit /\ [][ShaNext]_vars

Readable(path) == path \in DOMAIN fs /\ path \notin unreadable

IsHexDigest(v) ==
    /\ Len(v) = DigestLen
    /\ \A i \in 1..Len(v) : \E k \in 1..16 : v[i] = Hex[k]

CountOf(line) == Cardinality({i \in 1..Len(out) : out[i] = line})

ShaFailures == {i \in 1..Len(ret) : ~Readable(arg[i])}

----------------------------------------------------------------------------
(* utils.rs: dead and create_tarball *)

\* Mutant of dead: it prints and returns, and the caller goes on at `next`.
dead_returns(next) == [pc |-> next, exit_code |-> -1]

\* dead: exit(1); the caller never goes on to `next`.
dead(next) == [pc |-> "dead", exit_code |-> 1]

\* A path is a sequence of components.  Path::components drops every "." but a
\* leading one.
PathComponents(path) ==
    LET keep == {i \in 1..Len(path) : path[i] # "." \/ i = 1}
        nth(k) == CHOOSE i \in keep : Cardinality({j \in keep : j <= i}) = k
    IN [k \in 1..Cardinality(keep) |-> path[nth(k)]]

NonUtf8 == "\\xff"

\* Path::file_name followed by OsStr::to_str: the last component when it is a
\* normal one and valid UTF-8.
file_name(path) ==
    LET comps == PathComponents(path)
    IN IF comps = <<>> THEN None
       ELSE LET last == comps[Len(comps)]
            IN IF last \in {".", "..", "/"} THEN None
               ELSE IF last = NonUtf8 THEN None
               ELSE Some(last)

tarball_name(source_file) == "aurders/" \o source_file \o ".tar.gz"

\* Mutant of create_file: File::create_new, which refuses a path that exists.
create_file_new(files, dir_exists, path) ==
    IF ~dir_exists THEN [res |-> Err("NotFound"), fs |-> files]
    ELSE IF path \in DOMAIN files THEN [res |-> Err("AlreadyExists"), fs |-> files]
    ELSE [res |-> Ok(<<>>), fs |-> (path :> {}) @@ files]

\* File::create: creates the file or truncates the one that exists; fails when the
\* directory aurders/ is missing.
create_file(files, dir_exists, path) ==
    IF ~dir_exists THEN [res |-> Err("NotFound"), fs |-> files]
    ELSE [res |-> Ok(<<>>), fs |-> (path :> {}) @@ files]

\* Builder::append_dir_all(name, source): the names of the entries, the directory
\* itself first, under the top-level name.  When aurders/ lies inside the source
\* directory its files, as they are when the walk runs, are entries too.
append_dir_all(name, source_env, files) ==
    IF source_env.kind # "dir" THEN Err("NotADirectory")
    ELSE Ok({<<name>>}
            \cup {<<name>> \o e : e \in source_env.tree}
            \cup (IF source_env.holds_aurders
                  THEN {<<name, "aurders">>} \cup {<<name, f>> : f \in DOMAIN files}
                  ELSE {}))

\* create_tarball as a whole: what it returns, the files it leaves, whether the
\* process goes on.
create_tarball(files, source_env, source) ==
    LET source_file == file_name(source)
    IN IF source_file = None
       THEN [ret |-> Unset, fs |-> files, next |-> dead("tar"),
             msg |-> <<"Failed to extract filename from source.", "Exiting...">>]
       ELSE LET name == tarball_name(source_file.val)
                tar_gz == create_file(files, source_env.aurders_dir, name)
            IN IF tar_gz.res.tag = "Err"
               THEN [ret |-> tar_gz.res, fs |-> files,
                     next |-> [pc |-> "tar", exit_code |-> -1], msg |-> <<>>]
               ELSE LET entries == append_dir_all(source_file.val, source_env, tar_gz.fs)
                    IN IF entries.tag = "Err"
                       THEN [ret |-> Unset, fs |-> tar_gz.fs, next |-> dead("tar"),
                             msg |-> <<"Failed to append source to tarball. Make sure source is a directory.",
                                       "Exiting...">>]
                       ELSE [ret |-> Ok(name),
                             fs |-> [tar_gz.fs EXCEPT ![name] = entries.val],
                             next |-> [pc |-> "tar", exit_code |-> -1], msg |-> <<>>]

\* One call of create_tarball(&arg); saves keeps the archive each call left.
CallCreateTarball ==
    /\ pc = "tar"
    /\ Len(ret) < MaxCalls
    /\ LET r == create_tarball(fs, env, arg)
       IN /\ fs' = r.fs
          /\ pc' = r.next.pc
          /\ exit_code' = r.next.exit_code
          /\ out' = out \o r.msg
          /\ ret' = Append(ret, r.ret)
          /\ saves' = Append(saves,
                         IF r.ret.tag = "Ok" THEN r.fs[r.ret.val] ELSE {})
    /\ UNCHANGED <<unreadable, dir_writable, pkginfo, pkgbuild_result,
                   srcinfo_result, run, fs_start, arg, env>>

SourcePaths == SeqsUpTo({"proj", "..", ".", NonUtf8}, 2)

\* The trees below the source directory: every entry's parent is an entry too.
SourceTrees == { {}, {<<"a">>}, {<<"sub">>}, {<<"a">>, <<"sub">>},
                 {<<"sub">>, <<"sub", "b">>}, {<<"a">>, <<"sub">>, <<"sub", "b">>} }

TarInit ==
    /\ arg \in SourcePaths
    /\ env \in [kind : {"dir", "file", "missing"}, tree : SourceTrees,
                aurders_dir : BOOLEAN, holds_aurders : BOOLEAN]
    /\ env.kind # "dir" => env.tree = {} /\ ~env.holds_aurders
    /\ env.holds_aurders => env.aurders_dir
    /\ fs \in FileSystems(IF env.aurders_dir
                          THEN {tarball_name("proj"), tarball_name("other")} ELSE {},
                          {{<<"stale">>}})
    /\ unreadable = {}
    /\ dir_writable = TRUE
    /\ pc = "tar"
    /\ pkginfo = [f \in Fields |-> <<>>]
    /\ pkgbuild_result = Unset
    /\ srcinfo_result = Unset
    /\ out = <<>>
    /\ exit_code = -1
    /\ run = 1
    /\ fs_start = fs
    /\ saves = <<>>
    /\ ret = <<>>

TarNext == CallCreateTarball

TarSpec == TarInit /\ [][TarNext]_vars

\* C8: two calls of create_tarball on the same unchanged source directory, the
\* first of which succeeds: the second succeeds too, both return
\* aurders/<basename>.tar.gz, and both archives hold the same entry names, each
\* under the top-level entry <basename>.
C8_SameTarballTwice ==
    (Len(ret) >= 1 /\ ret[1].tag = "Ok") =>
        /\ file_name(arg).tag = "Some"
        /\ ret[1].val = "aurders/" \o file_name(arg).val \o ".tar.gz"
        /\ <<file_name(arg).val>> \in saves[1]
        /\ \A e \in saves[1] : e[1] = file_name(arg).val
        /\ \A t \in env.tree : <<file_name(arg).val>> \o t \in saves[1]
        /\ \A i \in 2..Len(ret) :
              /\ ret[i] = ret[1]
              /\ saves[i] = saves[1]
              /\ fs[ret[i].val] = saves[i]

\* C8 witness: two successful calls on ../proj, whose tree is not empty, with a
\* tarball of an earlier build in place.
C8_Witness ==
    /\ Len(ret) >= 2
    /\ arg = <<"..", "proj">>
    /\ ret[1] = Ok("aurders/proj.tar.gz")
    /\ ret[2] = Ok("aurders/proj.tar.gz")
    /\ "aurders/proj.tar.gz" \in DOMAIN fs_start
    /\ <<"proj", "sub", "b">> \in saves[2]

----------------------------------------------------------------------------
(* utils.rs: get_templates *)

\* An archive is a sequence of entries <<path, data>>; the entry Corrupt stands for
\* the place where decoding fails (a damaged or truncated stream).
Corrupt == <<"?", "?">>

TemplatesTarGz == "templates.tar.gz"

\* fetch_data: GET the url, create the file, copy the body.  The environment
\* decides how far it gets: `reach` is "network" (the GET fails), "copy" (the copy
\* breaks off after `n` entries) or "all".
fetch_data(files, writable, remote, filename, reach, n) ==
    IF remote.tag = "Err" \/ reach = "network"
    THEN [res |-> Err("Network"), fs |-> files]
    ELSE IF filename \notin DOMAIN files /\ ~writable
    THEN [res |-> Err("PermissionDenied"), fs |-> files]
    ELSE IF reach = "copy" /\ n < Len(remote.val)
    THEN [res |-> Err("CopyFailed"),
          fs |-> (filename :> Append(SubSeq(remote.val, 1, n), Corrupt)) @@ files]
    ELSE [res |-> Ok(<<>>), fs |-> (filename :> remote.val) @@ files]

\* Archive::unpack("."): the entries are written one after the other, over what
\* is there; the first entry that cannot be decoded or written ends it, and what
\* was written stays.
RECURSIVE Unpack(_, _, _)
Unpack(files, writable, entries) ==
    IF entries = <<>> THEN [res |-> Ok(<<>>), fs |-> files]
    ELSE LET e == Head(entries)
         IN IF e = Corrupt THEN [res |-> Err("InvalidData"), fs |-> files]
            ELSE IF e[1] \notin DOMAIN files /\ ~writable
            THEN [res |-> Err("PermissionDenied"), fs |-> files]
            ELSE Unpack((e[1] :> e[2]) @@ files, writable, Tail(entries))

decompress_tarball(files, noread, writable, tarball_path) ==
    LET tar_gz == ReadFile(files, noread, tarball_path)
    IN IF tar_gz.tag = "Err" THEN [res |-> tar_gz, fs |-> files]
       ELSE Unpack(files, writable, tar_gz.val)

\* remove_file
remove_file(files, path, allowed) ==
    IF path \in DOMAIN files /\ allowed
    THEN [res |-> Ok(<<>>), fs |-> [q \in DOMAIN files \ {path} |-> files[q]]]
    ELSE [res |-> Err("RemoveFailed"), fs |-> files]

\* get_templates, lines 241-247
FetchStep(reach, n) ==
    /\ pc = "fetch"
    /\ LET r == fetch_data(fs, dir_writable, env, TemplatesTarGz, reach, n)
           then == IF r.res.tag = "Ok" THEN [pc |-> "decompress", exit_code |-> -1]
                   ELSE dead("decompress")
       IN /\ fs' = r.fs
          /\ pc' = then.pc
          /\ exit_code' = then.exit_code
          /\ out' = IF r.res.tag = "Ok"
                    THEN out \o <<"Attempting to fetch", "Fetched templates successfully.">>
                    ELSE out \o <<"Attempting to fetch", "Unable to fetch data", "Exiting...">>
          /\ saves' = Append(saves, [step |-> "fetch", res |-> r.res.tag, fs |-> r.fs])
    /\ UNCHANGED <<unreadable, dir_writable, pkginfo, pkgbuild_result,
                   srcinfo_result, run, fs_start, arg, ret, env>>

\* get_templates, lines 249-255
DecompressStep ==
    /\ pc = "decompress"
    /\ LET r == decompress_tarball(fs, unreadable, dir_writable, TemplatesTarGz)
           then == IF r.res.tag = "Ok" THEN [pc |-> "remove", exit_code |-> -1]
                   ELSE dead("remove")
       IN /\ fs' = r.fs
          /\ pc' = then.pc
          /\ exit_code' = then.exit_code
          /\ out' = IF r.res.tag = "Ok" THEN out
                    ELSE out \o <<"Failed to decompress archive", "Exiting...">>
          /\ saves' = Append(saves, [step |-> "unpack", res |-> r.res.tag, fs |-> r.fs])
    /\ UNCHANGED <<unreadable, dir_writable, pkginfo, pkgbuild_result,
                   srcinfo_result, run, fs_start, arg, ret, env>>

\* get_templates, lines 257-264
RemoveStep(allowed) ==
    /\ pc = "remove"
    /\ LET r == remove_file(fs, TemplatesTarGz, allowed)
       IN /\ fs' = r.fs
          /\ out' = IF r.res.tag = "Ok" THEN Append(out, "Removed file")
                    ELSE Append(out, "Failed to remove. You might want to remove it manually.")
          /\ saves' = Append(saves, [step |-> "remove", res |-> r.res.tag, fs |-> r.fs])
    /\ pc' = "returned"
    /\ UNCHANGED <<unreadable, dir_writable, pkginfo, pkgbuild_result,
                   srcinfo_result, exit_code, run, fs_start, arg, ret, env>>

TemplateEntries == { <<"templates/PKGBUILD", <<"new">> >>,
                     <<"templates/SRCINFO", <<"new">> >> }

\* What the release asset may hold: entries in some order, possibly damaged.
RemoteArchives ==
    { a \in SeqsUpTo(TemplateEntries \cup {Corrupt}, MaxFileLen) :
        /\ \A i \in 1..Len(a) : a[i] = Corrupt => i = Len(a)
        /\ \A i, j \in 1..Len(a) : a[i] = a[j] => i = j }

TemplatesInit ==
    /\ env \in {Err("Unreachable")} \cup {Ok(a) : a \in RemoteArchives}
    /\ \E tpls \in FileSystems({"templates/PKGBUILD", "templates/SRCINFO"}, {OldText}),
          tgz \in FileSystems({TemplatesTarGz}, {<<Corrupt>>}) :
          fs = tpls @@ tgz
    /\ unreadable = {}
    /\ dir_writable \in BOOLEAN
    /\ pc = "fetch"
    /\ pkginfo = [f \in Fields |-> <<>>]
    /\ pkgbuild_result = Unset
    /\ srcinfo_result = Unset
    /\ out = <<>>
    /\ exit_code = -1
    /\ run = 1
    /\ fs_start = fs
    /\ saves = <<>>
    /\ arg = <<>>
    /\ ret = <<>>

TemplatesNext ==
    \/ \E reach \in {"network", "copy", "all"}, n \in 0..MaxFileLen : FetchStep(reach, n)
    \/ DecompressStep
    \/ \E allowed \in BOOLEAN : RemoveStep(allowed)

TemplatesSpec == TemplatesInit /\ [][TemplatesNext]_vars

StepDone(i, step, res) ==
    i \in 1..Len(saves) /\ saves[i].step = step /\ saves[i].res = res

\* C9: get_templates fetches, then unpacks, then deletes; templates.tar.gz is
\* deleted only after an unpack that succeeded and is gone when all three steps
\* succeeded; a failed fetch or unpack halts the run with status 1, the file not
\* deleted and the entries already written left in place.
C9_FetchUnpackDelete ==
    /\ Len(saves) <= 3
    /\ Len(saves) >= 1 => saves[1].step = "fetch"
    /\ Len(saves) >= 2 => StepDone(1, "fetch", "Ok") /\ saves[2].step = "unpack"
    /\ Len(saves) >= 3 => StepDone(2, "unpack", "Ok") /\ saves[3].step = "remove"
    /\ (TemplatesTarGz \in DOMAIN fs_start /\ TemplatesTarGz \notin DOMAIN fs) =>
          StepDone(2, "unpack", "Ok") /\ StepDone(3, "remove", "Ok")
    /\ (StepDone(1, "fetch", "Ok") /\ TemplatesTarGz \notin DOMAIN fs) =>
          StepDone(2, "unpack", "Ok") /\ StepDone(3, "remove", "Ok")
    /\ StepDone(3, "remove", "Ok") =>
          /\ TemplatesTarGz \notin DOMAIN fs
          /\ pc = "returned"
          /\ exit_code = -1
          /\ \A i \in 1..Len(env.val) : fs[env.val[i][1]] = env.val[i][2]
    /\ (StepDone(1, "fetch", "Err") \/ StepDone(2, "unpack", "Err")) =>
          /\ pc = "dead"
          /\ exit_code = 1
          /\ fs = saves[Len(saves)].fs
          /\ Printed("Exiting...")
          /\ Len(saves) < 3
    /\ StepDone(2, "unpack", "Err") =>
          /\ TemplatesTarGz \in DOMAIN fs
          /\ \A i \in 1..Len(saves[1].fs[TemplatesTarGz]) :
                LET e == saves[1].fs[TemplatesTarGz][i]
                IN (\A j \in 1..i : saves[1].fs[TemplatesTarGz][j] # Corrupt
                                    /\ (dir_writable \/ saves[1].fs[TemplatesTarGz][j][1]
                                                           \in DOMAIN fs_start)) =>
                      fs[e[1]] = e[2]

\* C9 witness: an unpack that failed after writing an entry.
C9_Witness ==
    /\ StepDone(2, "unpack", "Err")
    /\ pc = "dead"
    /\ TemplatesTarGz \in DOMAIN fs
    /\ \E p \in {"templates/PKGBUILD", "templates/SRCINFO"} :
          /\ p \in DOMAIN fs
          /\ fs[p] = <<"new">>
          /\ p \notin DOMAIN fs_start

=============================================================================
